---------------------------- MODULE Spec2Model ----------------------------
(***************************************************************************)
(* Model of classifier/data/cifar10_datamodule.py: CIFARDataModule, a      *)
(* LightningDataModule over CIFAR10.  Two instances (two processes)        *)
(* constructed with the same configuration run against the same dataset    *)
(* directory.  The library calls the module makes (CIFAR10, ConcatDataset, *)
(* random_split, DataLoader, hparams attribute lookup) are modelled by     *)
(* what they do with the arguments the module passes them.                 *)
(***************************************************************************)
EXTENDS Integers, Sequences, FiniteSets

(* ---- bounds of the model ---------------------------------------------- *)
\* samples in the scaled-down CIFAR10 train partition (really 50000)
TrainLen == 2
\* samples in the scaled-down CIFAR10 test partition (really 10000)
TestLen == 1
\* largest split size tried in a configuration over the scaled-down dataset
MaxSplit == 2

(* ---- the dataset as distributed --------------------------------------- *)
CIFAR10_TRAIN_SIZE == 50000
CIFAR10_TEST_SIZE == 10000
SmallCifar == [train_len |-> TrainLen, test_len |-> TestLen]
FullCifar == [train_len |-> CIFAR10_TRAIN_SIZE, test_len |-> CIFAR10_TEST_SIZE]

(* ---- constructor arguments -------------------------------------------- *)
DefaultSplit == <<55000, 5000, 10000>>
\* train_val_test_split is Tuple[int, int, int]; sizes are taken non-negative
Splits == {<<a, b, c>> : a \in 0..MaxSplit, b \in 0..MaxSplit, c \in 0..MaxSplit}
BatchSizes == {64}
NumWorkerValues == {0}
PinMemoryValues == {FALSE}
Stages == {"fit", "test"}
Inst == {1, 2}

None == [none |-> TRUE]
NoError == "ok"
EmptyDict == [dict |-> {}]
StateDicts == {EmptyDict, [dict |-> {<<"epoch", 3>>}]}

VARIABLES
    cifar,        \* the dataset the distribution source serves: partition sizes
    disk,         \* TRUE when the dataset files are present under data_dir
    hparams,      \* what save_hyperparameters stored: the constructor arguments
    data_train,   \* per instance: None or a Subset
    data_val,
    data_test,
    generator42,  \* randperm's output under Generator().manual_seed(42); None until first drawn
    last          \* the last lifecycle call: which, on which instance, how it ended

vars == <<cifar, disk, hparams, data_train, data_val, data_test, generator42, last>>

(* ---- Python helpers --------------------------------------------------- *)
RECURSIVE SumSeq(_)
SumSeq(s) == IF s = <<>> THEN 0 ELSE Head(s) + SumSeq(Tail(s))

\* bool(x) of an Optional[Dataset]: None is falsy, a Subset is falsy when its len() is 0
Truthy(d) == IF d = None THEN FALSE ELSE Len(d.indices) > 0

\* len(CIFAR10(..., train=t))
CIFAR10Len(t) == IF t THEN cifar.train_len ELSE cifar.test_len

\* CIFAR10(root, train=t)[i]: the i-th sample of that partition
CIFAR10Item(t, i) == <<IF t THEN "train" ELSE "test", i>>

\* len(ConcatDataset(datasets)); a CIFAR10 dataset is named by its train flag
ConcatLen(datasets) == SumSeq([k \in 1..Len(datasets) |-> CIFAR10Len(datasets[k])])

\* ConcatDataset(datasets)[i], i from 0
RECURSIVE ConcatItem(_, _)
ConcatItem(datasets, i) ==
    IF i < CIFAR10Len(Head(datasets))
    THEN CIFAR10Item(Head(datasets), i)
    ELSE ConcatItem(Tail(datasets), i - CIFAR10Len(Head(datasets)))

\* torch.randperm(n).tolist(): the permutations of 0..n-1 as lists
Permutations(n) ==
    {p \in [1..n -> 0..(n - 1)] : \A x, y \in 1..n : p[x] = p[y] => x = y}


(* ---- torch.utils.data.random_split ------------------------------------ *)
\* the fractional branch: math.isclose(sum(lengths), 1) and sum(lengths) <= 1
IsFractional(lengths) == SumSeq(lengths) = 1

\* variant of SplitLengths: only lengths that exceed the dataset are rejected
SplitLengthsOverflowOnly(n, lengths) ==
    IF SumSeq(lengths) > n
    THEN [raised |-> "ValueError", lengths |-> <<>>]
    ELSE [raised |-> NoError, lengths |-> lengths]

\* the lengths random_split partitions by, or the ValueError it raises
SplitLengths(n, lengths) ==
    LET floors == [k \in 1..Len(lengths) |-> n * lengths[k]]
        remainder == n - SumSeq(floors)
        spread == [k \in 1..Len(lengths) |->
                      floors[k] + (remainder \div Len(lengths))
                      + (IF k - 1 < remainder % Len(lengths) THEN 1 ELSE 0)]
        used == IF IsFractional(lengths) THEN spread ELSE lengths
    IN  IF IsFractional(lengths) /\ \E k \in 1..Len(lengths) : lengths[k] < 0 \/ lengths[k] > 1
        THEN [raised |-> "ValueError", lengths |-> <<>>]
        ELSE IF SumSeq(used) # n
        THEN [raised |-> "ValueError", lengths |-> <<>>]
        ELSE [raised |-> NoError, lengths |-> used]

\* itertools.accumulate(lengths)[k]
Offset(lengths, k) == SumSeq(SubSeq(lengths, 1, k))

\* Subset(dataset, indices[offset - length : offset])
Subset(dataset, indices, offset, length) ==
    [dataset |-> dataset, indices |-> SubSeq(indices, offset - length + 1, offset)]

\* the list of Subsets random_split returns for an accepted list of lengths
SplitSubsets(dataset, lengths, indices) ==
    [k \in 1..Len(lengths) |-> Subset(dataset, indices, Offset(lengths, k), lengths[k])]

\* variant of RandPerm42: no generator argument, every draw is a fresh shuffle
RandPermUnseeded(n) == Permutations(n)

\* randperm(n, generator=torch.Generator().manual_seed(42)).tolist(): a fixed
\* list for each n, not known to the model: the first draw picks any
\* permutation and every later draw, in either instance, returns that one
RandPerm42(n) ==
    IF generator42 = None THEN Permutations(n) ELSE {generator42.perm}

(* ---- self.hparams ----------------------------------------------------- *)
\* self.hparams.<key>: AttributeDict raises AttributeError on a missing key
HparamsGetAttr(key) ==
    IF key \in DOMAIN hparams
    THEN [raised |-> NoError, value |-> hparams[key]]
    ELSE [raised |-> "AttributeError", value |-> None]

\* DataLoader(dataset=, batch_size=, num_workers=, pin_memory=, shuffle=): the
\* constructor rejects a negative num_workers, then builds its sampler; with
\* shuffle=True that is RandomSampler(dataset), which takes len(dataset) (a
\* TypeError on None) and rejects a length of 0; with shuffle=False it is
\* SequentialSampler(dataset), which does not look at the dataset; BatchSampler
\* then rejects a batch_size that is not positive
DataLoader(dataset, batch_size, num_workers, pin_memory, shuffle) ==
    IF num_workers < 0
    THEN [raised |-> "ValueError", ret |-> None]
    ELSE IF shuffle /\ dataset = None
    THEN [raised |-> "TypeError", ret |-> None]
    ELSE IF shuffle /\ Len(dataset.indices) = 0
    THEN [raised |-> "ValueError", ret |-> None]
    ELSE IF batch_size <= 0
    THEN [raised |-> "ValueError", ret |-> None]
    ELSE [raised |-> NoError,
          ret |-> [dataset |-> dataset, batch_size |-> batch_size,
                   num_workers |-> num_workers, pin_memory |-> pin_memory,
                   shuffle |-> shuffle]]

Call(op, i, raised, split, ret) ==
    [op |-> op, inst |-> i, raised |-> raised, split |-> split, ret |-> ret]

(* ---- __init__ --------------------------------------------------------- *)
\* Both instances are constructed with the same arguments.  Over the
\* scaled-down dataset every triple of Splits is tried; over the full-size
\* dataset only the constructor's default, since a permutation of its 100000
\* pool indices cannot be enumerated.  The files may or may not be on disk.
Init ==
    /\ cifar \in {SmallCifar, FullCifar}
    /\ disk \in BOOLEAN
    /\ hparams \in [data_dir : {"data/"},
                    train_val_test_split :
                        IF cifar = SmallCifar THEN Splits ELSE {DefaultSplit},
                    batch_size : BatchSizes,
                    num_worker : NumWorkerValues,
                    pin_memory : PinMemoryValues]
    /\ data_train = [i \in Inst |-> None]
    /\ data_val = [i \in Inst |-> None]
    /\ data_test = [i \in Inst |-> None]
    /\ generator42 = None
    /\ last = Call("__init__", 0, NoError, FALSE, None)

(* ---- prepare_data ----------------------------------------------------- *)
\* CIFAR10(data_dir, train=..., download=True) twice: files already present
\* are kept; otherwise the download either completes or raises
prepare_data(i) ==
    /\ \/ /\ disk
          /\ last' = Call("prepare_data", i, NoError, FALSE, None)
          /\ UNCHANGED disk
       \/ /\ ~disk
          /\ disk' = TRUE
          /\ last' = Call("prepare_data", i, NoError, FALSE, None)
       \/ /\ ~disk
          /\ last' = Call("prepare_data", i, "URLError", FALSE, None)
          /\ UNCHANGED disk
    /\ UNCHANGED <<cifar, hparams, data_train, data_val, data_test, generator42>>

(* ---- setup ------------------------------------------------------------ *)
\* variant of SetupGuard: only data_train is tested
SetupGuardTrainOnly(dtrain, dval, dtest) == ~Truthy(dtrain)

\* variant of SetupGuard: the three "not" dropped
SetupGuardInverted(dtrain, dval, dtest) ==
    Truthy(dtrain) /\ Truthy(dval) /\ Truthy(dtest)

\* the condition of the if statement of setup
SetupGuard(dtrain, dval, dtest) ==
    ~Truthy(dtrain) /\ ~Truthy(dval) /\ ~Truthy(dtest)

\* the partitions setup loads: trainset and testset, in the order concatenated
SetupPartitions == <<TRUE, TRUE>>

\* variant of SetupUnpack: validation and test targets exchanged
SetupUnpackSwapped(subsets) ==
    [train |-> subsets[1], val |-> subsets[3], test |-> subsets[2]]

\* variant of SetupUnpack: data_val is not assigned
SetupUnpackNoVal(subsets) ==
    [train |-> subsets[1], val |-> None, test |-> subsets[3]]

\* self.data_train, self.data_val, self.data_test = random_split(...)
SetupUnpack(subsets) ==
    [train |-> subsets[1], val |-> subsets[2], test |-> subsets[3]]

setup(i, stage) ==
    /\ UNCHANGED <<cifar, disk, hparams>>
    /\ IF ~SetupGuard(data_train[i], data_val[i], data_test[i])
       THEN /\ last' = Call("setup", i, NoError, FALSE, None)
            /\ UNCHANGED <<data_train, data_val, data_test, generator42>>
       ELSE IF ~disk
       THEN \* CIFAR10(..., download=False): "Dataset not found or corrupted"
            /\ last' = Call("setup", i, "RuntimeError", FALSE, None)
            /\ UNCHANGED <<data_train, data_val, data_test, generator42>>
       ELSE LET dataset == SetupPartitions
                lens == SplitLengths(ConcatLen(dataset), hparams.train_val_test_split)
            IN  IF lens.raised # NoError
                THEN /\ last' = Call("setup", i, lens.raised, FALSE, None)
                     /\ UNCHANGED <<data_train, data_val, data_test, generator42>>
                ELSE \E indices \in RandPerm42(SumSeq(lens.lengths)) :
                        LET got == SetupUnpack(SplitSubsets(dataset, lens.lengths, indices))
                        IN  /\ data_train' = [data_train EXCEPT ![i] = got.train]
                            /\ data_val' = [data_val EXCEPT ![i] = got.val]
                            /\ data_test' = [data_test EXCEPT ![i] = got.test]
                            /\ generator42' = [perm |-> indices]
                            /\ last' = Call("setup", i, NoError, TRUE, None)

(* ---- train_dataloader / val_dataloader / test_dataloader -------------- *)
\* the keyword arguments are evaluated left to right; the first lookup that
\* raises ends the call before DataLoader is constructed
MakeLoader(dataset, shuffle) ==
    LET bs == HparamsGetAttr("batch_size")
        nw == HparamsGetAttr("num_workers")
        pm == HparamsGetAttr("pin_memory")
    IN  IF bs.raised # NoError THEN [raised |-> bs.raised, ret |-> None]
        ELSE IF nw.raised # NoError THEN [raised |-> nw.raised, ret |-> None]
        ELSE IF pm.raised # NoError THEN [raised |-> pm.raised, ret |-> None]
        ELSE DataLoader(dataset, bs.value, nw.value, pm.value, shuffle)

train_dataloader(i) ==
    /\ LET r == MakeLoader(data_train[i], TRUE)
       IN  last' = Call("train_dataloader", i, r.raised, FALSE, r.ret)
    /\ UNCHANGED <<cifar, disk, hparams, data_train, data_val, data_test, generator42>>

val_dataloader(i) ==
    /\ LET r == MakeLoader(data_val[i], FALSE)
       IN  last' = Call("val_dataloader", i, r.raised, FALSE, r.ret)
    /\ UNCHANGED <<cifar, disk, hparams, data_train, data_val, data_test, generator42>>

test_dataloader(i) ==
    /\ LET r == MakeLoader(data_test[i], FALSE)
       IN  last' = Call("test_dataloader", i, r.raised, FALSE, r.ret)
    /\ UNCHANGED <<cifar, disk, hparams, data_train, data_val, data_test, generator42>>

(* ---- teardown / state_dict / load_state_dict -------------------------- *)
teardown(i, stage) ==
    /\ last' = Call("teardown", i, NoError, FALSE, None)
    /\ UNCHANGED <<cifar, disk, hparams, data_train, data_val, data_test, generator42>>

\* variant of state_dict: clears data_test while exporting
state_dictDropsTest(i) ==
    /\ last' = Call("state_dict", i, NoError, FALSE, EmptyDict)
    /\ data_test' = [data_test EXCEPT ![i] = None]
    /\ UNCHANGED <<cifar, disk, hparams, data_train, data_val, generator42>>

state_dict(i) ==
    /\ last' = Call("state_dict", i, NoError, FALSE, EmptyDict)
    /\ UNCHANGED <<cifar, disk, hparams, data_train, data_val, data_test, generator42>>

load_state_dict(i, sd) ==
    /\ last' = Call("load_state_dict", i, NoError, FALSE, None)
    /\ UNCHANGED <<cifar, disk, hparams, data_train, data_val, data_test, generator42>>

Next ==
    \/ \E i \in Inst : prepare_data(i)
    \/ \E i \in Inst, stage \in Stages : setup(i, stage)
    \/ \E i \in Inst : train_dataloader(i)
    \/ \E i \in Inst : val_dataloader(i)
    \/ \E i \in Inst : test_dataloader(i)
    \/ \E i \in Inst, stage \in Stages : teardown(i, stage)
    \/ \E i \in Inst : state_dict(i)
    \/ \E i \in Inst, sd \in StateDicts : load_state_dict(i, sd)

Spec == Init /\ [][Next]_vars

(* ======================================================================= *)
(* Properties                                                              *)
(* ======================================================================= *)
Populated(i) == data_train[i] # None /\ data_val[i] # None /\ data_test[i] # None
Absent(i) == data_train[i] = None /\ data_val[i] = None /\ data_test[i] = None
Handles == <<data_train, data_val, data_test>>
Configured == hparams.train_val_test_split
\* N: the size of the pool setup builds
PoolLen == ConcatLen(SetupPartitions)
IndexSet(d) == {d.indices[k] : k \in 1..Len(d.indices)}
LoaderOps == {"train_dataloader", "val_dataloader", "test_dataloader"}
HandleOf(op, i) ==
    IF op = "train_dataloader" THEN data_train[i]
    ELSE IF op = "val_dataloader" THEN data_val[i] ELSE data_test[i]

\* C1: once an instance's subsets are populated, every later step leaves them
\* as they are, and a setup call on that instance returns without splitting
C1_SetupIdempotent ==
    [][\A i \in Inst :
          Populated(i) =>
              /\ data_train'[i] = data_train[i]
              /\ data_val'[i] = data_val[i]
              /\ data_test'[i] = data_test[i]
              /\ (last'.op = "setup" /\ last'.inst = i) =>
                     (~last'.split /\ last'.raised = NoError)]_vars

\* a second setup call returned on an instance whose sizes sum to N and whose
\* train subset is empty
C1_Witness ==
    /\ last.op = "setup" /\ ~last.split /\ last.raised = NoError
    /\ Populated(last.inst)
    /\ SumSeq(Configured) = PoolLen
    /\ Len(data_train[last.inst].indices) = 0
    /\ Len(data_val[last.inst].indices) > 0

\* C2 as stated: with a+b+c # N every setup call raises
C2_EveryMismatchFails ==
    (last.op = "setup" /\ SumSeq(Configured) # PoolLen) => last.raised # NoError

\* C2: with a+b+c # N and a+b+c # 1 every setup call raises and leaves the
\* subsets absent; with a+b+c = 1 (sizes read as fractions) setup raises only
\* when the dataset files are missing, and otherwise splits the whole pool
C2_MismatchFailsUnlessFractional ==
    (last.op = "setup" /\ SumSeq(Configured) # PoolLen) =>
        IF IsFractional(Configured)
        THEN IF disk THEN last.raised = NoError /\ Populated(last.inst)
                     ELSE last.raised = "RuntimeError" /\ Absent(last.inst)
        ELSE /\ last.raised = (IF disk THEN "ValueError" ELSE "RuntimeError")
             /\ Absent(last.inst)

\* a setup call with the files present was refused for sizes that sum to
\* neither N nor 1, over the scaled-down dataset
C2_Witness ==
    /\ last.op = "setup" /\ last.raised = "ValueError"
    /\ cifar = SmallCifar
    /\ SumSeq(Configured) \notin {PoolLen, 1}
    /\ SumSeq(Configured) > 0

\* C3 as stated: the pool of a populated instance holds every sample of the
\* train partition and every sample of the test partition exactly once
C3_PoolIsTrainPlusTest ==
    \A i \in Inst :
        Populated(i) =>
            LET pool == data_train[i].dataset
                n == ConcatLen(pool)
                Occurrences(x) == Cardinality({k \in 0..(n - 1) : ConcatItem(pool, k) = x})
            IN  /\ n = cifar.train_len + cifar.test_len
                /\ \A k \in 0..(cifar.train_len - 1) : Occurrences(CIFAR10Item(TRUE, k)) = 1
                /\ \A k \in 0..(cifar.test_len - 1) : Occurrences(CIFAR10Item(FALSE, k)) = 1

\* C4 as stated: the subsets of a populated instance have a, b and c elements,
\* are pairwise disjoint and cover the pool
C4_SizesAsConfigured ==
    \A i \in Inst :
        Populated(i) =>
            /\ Len(data_train[i].indices) = Configured[1]
            /\ Len(data_val[i].indices) = Configured[2]
            /\ Len(data_test[i].indices) = Configured[3]
            /\ IndexSet(data_train[i]) \cap IndexSet(data_val[i]) = {}
            /\ IndexSet(data_train[i]) \cap IndexSet(data_test[i]) = {}
            /\ IndexSet(data_val[i]) \cap IndexSet(data_test[i]) = {}
            /\ IndexSet(data_train[i]) \cup IndexSet(data_val[i]) \cup IndexSet(data_test[i])
                   = 0..(PoolLen - 1)

\* C4: the subsets of a populated instance are pairwise disjoint sets of pool
\* indices without repeats that cover the pool; they have a, b and c elements
\* when a+b+c = N, and N*a, N*b and N*c elements when a+b+c = 1
C4_PartitionOfPool ==
    \A i \in Inst :
        Populated(i) =>
            LET sizes == <<Len(data_train[i].indices), Len(data_val[i].indices),
                           Len(data_test[i].indices)>>
            IN  /\ SumSeq(Configured) \in {PoolLen, 1}
                /\ SumSeq(Configured) = PoolLen => sizes = Configured
                /\ SumSeq(Configured) = 1 =>
                       sizes = [k \in 1..3 |-> PoolLen * Configured[k]]
                /\ Cardinality(IndexSet(data_train[i])) = sizes[1]
                /\ Cardinality(IndexSet(data_val[i])) = sizes[2]
                /\ Cardinality(IndexSet(data_test[i])) = sizes[3]
                /\ IndexSet(data_train[i]) \cap IndexSet(data_val[i]) = {}
                /\ IndexSet(data_train[i]) \cap IndexSet(data_test[i]) = {}
                /\ IndexSet(data_val[i]) \cap IndexSet(data_test[i]) = {}
                /\ IndexSet(data_train[i]) \cup IndexSet(data_val[i])
                       \cup IndexSet(data_test[i]) = 0..(PoolLen - 1)

\* an instance populated with three non-empty subsets, not all of one size,
\* summing to N, some calls after its setup
C4_Witness ==
    /\ last.op = "teardown"
    /\ Populated(last.inst)
    /\ SumSeq(Configured) = PoolLen
    /\ Len(data_train[last.inst].indices) > 0
    /\ Len(data_val[last.inst].indices) > Len(data_test[last.inst].indices)
    /\ Len(data_test[last.inst].indices) > 0

\* C5 as stated: on a populated instance each dataloader method returns a
\* DataLoader over its own subset with the constructor's batch_size,
\* num_worker and pin_memory
C5_LoadersReturnConfigured ==
    (last.op \in LoaderOps /\ Populated(last.inst)) =>
        /\ last.raised = NoError
        /\ last.ret.dataset = HandleOf(last.op, last.inst)
        /\ last.ret.batch_size = hparams.batch_size
        /\ last.ret.num_workers = hparams.num_worker
        /\ last.ret.pin_memory = hparams.pin_memory

\* C6 as stated: with the default sizes, the full-size dataset and its files
\* present, a setup call succeeds and populates the subsets
C6_DefaultSplitSucceeds ==
    (last.op = "setup" /\ cifar = FullCifar /\ Configured = DefaultSplit /\ disk) =>
        last.raised = NoError /\ Populated(last.inst)

\* C6: the default sizes sum to 70000, which is neither the 60000 samples of
\* the two partitions nor the size of the pool setup builds, so with the files
\* present every setup call raises ValueError and leaves the subsets absent
C6_DefaultSplitFails ==
    /\ SumSeq(DefaultSplit) = 70000
    /\ CIFAR10_TRAIN_SIZE + CIFAR10_TEST_SIZE = 60000
    /\ (last.op = "setup" /\ cifar = FullCifar /\ Configured = DefaultSplit /\ disk) =>
           /\ SumSeq(Configured) # PoolLen
           /\ last.raised = "ValueError"
           /\ Absent(last.inst)

\* a setup call with the default sizes on the full-size dataset, files present
C6_Witness ==
    /\ last.op = "setup" /\ last.inst = 1
    /\ cifar = FullCifar /\ Configured = DefaultSplit /\ disk
    /\ CIFAR10Len(TRUE) + CIFAR10Len(FALSE) = 60000

\* C7 as stated: on a populated instance each dataloader method returns a
\* batch source, shuffling exactly when it is the training one
C7_ShuffleOnlyTrain ==
    (last.op \in LoaderOps /\ Populated(last.inst)) =>
        /\ last.raised = NoError
        /\ last.ret.shuffle = (last.op = "train_dataloader")

\* C8: two instances with the same configuration over the same dataset hold
\* the same three subsets once both are populated
C8_SameSplitAcrossInstances ==
    (Populated(1) /\ Populated(2)) =>
        /\ data_train[1] = data_train[2]
        /\ data_val[1] = data_val[2]
        /\ data_test[1] = data_test[2]

\* both instances populated with three non-empty subsets, the second one set
\* up last
C8_Witness ==
    /\ Populated(1) /\ Populated(2)
    /\ last.op = "setup" /\ last.inst = 2 /\ last.split
    /\ \A k \in 1..3 : Configured[k] > 0
    /\ Len(data_train[2].indices) > 0 /\ Len(data_val[2].indices) > 0
    /\ Len(data_test[2].indices) > 0

\* C9: a state_dict call returns the empty record, and neither it nor a
\* load_state_dict call changes the configuration, the subsets of any
\* instance, the files or the generator's output
C9_CheckpointIsInert ==
    [][/\ last'.op = "state_dict" =>
              /\ last'.ret = EmptyDict /\ last'.raised = NoError
              /\ UNCHANGED <<cifar, disk, hparams, data_train, data_val, data_test, generator42>>
       /\ last'.op = "load_state_dict" =>
              /\ last'.raised = NoError
              /\ UNCHANGED <<cifar, disk, hparams, data_train, data_val, data_test, generator42>>
      ]_vars

\* load_state_dict returned on a fresh instance while the other is populated
C9_Witness ==
    /\ last.op = "load_state_dict" /\ last.inst = 2
    /\ Absent(2) /\ Populated(1)

\* C10: the three handles of an instance are all absent or all populated, a
\* setup call that raised leaves them absent, and only a setup call that split
\* changes them
C10_HandlesAllOrNone ==
    /\ [](\A i \in Inst : Absent(i) \/ Populated(i))
    /\ []((last.op = "setup" /\ last.raised # NoError) => Absent(last.inst))
    /\ [][Handles' # Handles =>
              (last'.op = "setup" /\ last'.split /\ last'.raised = NoError)]_vars

\* a setup call refused for its sizes on one instance, the files present
C10_Witness ==
    /\ last.op = "setup" /\ last.raised = "ValueError" /\ last.inst = 2
    /\ Absent(2) /\ Absent(1) /\ disk

=============================================================================
